---- MODULE Spec2Model ----
(***************************************************************************)
(* A model of the receipt field-extraction engine of khind-receipt-ocr:    *)
(* app/parsers.py (the resolvers and the validity decider) and the row     *)
(* loop of process() in app/main.py.                                       *)
(*                                                                         *)
(* A string is a sequence of one-character strings, so that the regular    *)
(* expressions of parsers.py can be run on it character by character.      *)
(* Positions are 1-based here (Python's are 0-based); an end position is   *)
(* exclusive, as in Python.  A monetary value is an integer number of      *)
(* cents: every number the patterns can capture has at most two decimals.  *)
(***************************************************************************)
EXTENDS Integers, Sequences, FiniteSets, TLC

\* ------------------------------------------------------------------------
\* characters
\* ------------------------------------------------------------------------

UPPERS == <<"A","B","C","D","E","F","G","H","I","J","K","L","M",
            "N","O","P","Q","R","S","T","U","V","W","X","Y","Z">>
LOWERS == <<"a","b","c","d","e","f","g","h","i","j","k","l","m",
            "n","o","p","q","r","s","t","u","v","w","x","y","z">>
DIGITS == <<"0","1","2","3","4","5","6","7","8","9">>

Range(f) == {f[i] : i \in DOMAIN f}

UpperSet == Range(UPPERS)
LowerSet == Range(LOWERS)
DigitSet == Range(DIGITS)
AlphaSet == UpperSet \cup LowerSet
\* \w of the re module, on the ASCII characters
WordSet  == AlphaSet \cup DigitSet \cup {"_"}
\* \s of the re module, on the characters a line can hold
SpaceSet == {" ", "\t"}

\* str.upper() / str.lower() on one character
UpperChar(c) == IF c \in LowerSet THEN UPPERS[CHOOSE i \in 1..26 : LOWERS[i] = c] ELSE c
LowerChar(c) == IF c \in UpperSet THEN LOWERS[CHOOSE i \in 1..26 : UPPERS[i] = c] ELSE c

\* str.upper() / str.lower()
Upper(s) == [i \in 1..Len(s) |-> UpperChar(s[i])]
Lower(s) == [i \in 1..Len(s) |-> LowerChar(s[i])]

\* int(c) for one digit character
DigitVal(c) == (CHOOSE i \in 1..10 : DIGITS[i] = c) - 1

Max(a, b) == IF a >= b THEN a ELSE b
Min(a, b) == IF a <= b THEN a ELSE b

\* s[from..to] (1-based, inclusive), empty when from > to
Slice(s, from, to) == IF from > to THEN <<>> ELSE SubSeq(s, from, to)

\* needle in s
Contains(s, needle) ==
    \E i \in 1..(Len(s) - Len(needle) + 1) : Slice(s, i, i + Len(needle) - 1) = needle

\* str.strip()
RECURSIVE LStrip(_)
LStrip(s) == IF s # <<>> /\ Head(s) \in SpaceSet THEN LStrip(Tail(s)) ELSE s
RECURSIVE RStrip(_)
RStrip(s) == IF s # <<>> /\ s[Len(s)] \in SpaceSet THEN RStrip(Slice(s, 1, Len(s) - 1)) ELSE s
Strip(s) == RStrip(LStrip(s))

\* ------------------------------------------------------------------------
\* the regular expressions of the re module that parsers.py uses
\* ------------------------------------------------------------------------

\* a pattern is a tree; hi = -1 is "no upper limit"
Set(S)          == [t |-> "set", s |-> S]
Cat(xs)         == [t |-> "cat", xs |-> xs]
Alt(xs)         == [t |-> "alt", xs |-> xs]
Rep(a, lo, hi)  == [t |-> "rep", a |-> a, lo |-> lo, hi |-> hi]
Star(a)         == Rep(a, 0, -1)
Plus(a)         == Rep(a, 1, -1)
Opt(a)          == Rep(a, 0, 1)
Grp(n, a)       == [t |-> "grp", n |-> n, a |-> a]
WB              == [t |-> "wb"]
NotBehind(S)    == [t |-> "nlb", s |-> S]
NotAhead(S)     == [t |-> "nla", s |-> S]
\* a literal, compiled with re.I: either case of each letter
LitI(s)         == Cat([i \in 1..Len(s) |-> Set({UpperChar(s[i]), LowerChar(s[i])})])
\* a literal, case-sensitive
Lit(s)          == Cat([i \in 1..Len(s) |-> Set({s[i]})])

\* the capture groups of a match: <<start, end>> each, <<0, 0>> when unset
NoCaps == <<<<0, 0>>, <<0, 0>>, <<0, 0>>, <<0, 0>>>>

\* \b at position p of s
IsWordBoundary(s, p) ==
    LET before == p > 1 /\ s[p - 1] \in WordSet
        after  == p <= Len(s) /\ s[p] \in WordSet
    IN  before # after

\* Run(k, s, st): the matcher states after the patterns of the sequence k
\* have matched one after the other from st, in the order the backtracking
\* matcher of the re module tries them (a greedy repeat takes one more
\* first, alternatives go left to right); the first is the match that
\* re.search reports.  k is the matcher's continuation.
RECURSIVE Run(_, _, _)
Run(k, s, st) ==
    IF k = <<>> THEN <<st>>
    ELSE LET re   == Head(k)
             rest == Tail(k)
         IN  CASE re.t = "set" ->
                    IF st.pos <= Len(s) /\ s[st.pos] \in re.s
                    THEN Run(rest, s, [st EXCEPT !.pos = @ + 1]) ELSE <<>>
               [] re.t = "cat" -> Run(re.xs \o rest, s, st)
               [] re.t = "alt" ->
                    IF re.xs = <<>> THEN <<>>
                    ELSE Run(<<Head(re.xs)>> \o rest, s, st)
                         \o Run(<<[re EXCEPT !.xs = Tail(@)]>> \o rest, s, st)
               [] re.t = "rep" ->
                    (IF re.hi = 0 THEN <<>>
                     ELSE Run(<<re.a, [re EXCEPT !.lo = @ - 1,
                                                 !.hi = IF @ > 0 THEN @ - 1 ELSE @]>> \o rest, s, st))
                    \o (IF re.lo <= 0 THEN Run(rest, s, st) ELSE <<>>)
               [] re.t = "grp" ->
                    Run(<<re.a, [t |-> "end", n |-> re.n, from |-> st.pos]>> \o rest, s, st)
               [] re.t = "end" ->
                    Run(rest, s, [st EXCEPT !.caps[re.n] = <<re.from, st.pos>>])
               [] re.t = "wb"  -> IF IsWordBoundary(s, st.pos) THEN Run(rest, s, st) ELSE <<>>
               [] re.t = "nlb" ->
                    IF st.pos > 1 /\ s[st.pos - 1] \in re.s THEN <<>> ELSE Run(rest, s, st)
               [] re.t = "nla" ->
                    IF st.pos <= Len(s) /\ s[st.pos] \in re.s THEN <<>> ELSE Run(rest, s, st)

\* a match object: start = 0 is "no match" (None)
NoMatch == [start |-> 0, end |-> 0, caps |-> NoCaps]

\* a or b, for match objects
OrMatch(a, b) == IF a.start # 0 THEN a ELSE b

\* the match that starts at i and whose matcher states are rs
FirstOf(i, rs) ==
    IF rs = <<>> THEN NoMatch ELSE [start |-> i, end |-> Head(rs).pos, caps |-> Head(rs).caps]

\* the match of re that starts at position i, if any
MatchAt(re, s, i) == FirstOf(i, Run(<<re>>, s, [pos |-> i, caps |-> NoCaps]))

\* re.search(s) from position i on: the leftmost match
RECURSIVE SearchFrom(_, _, _)
SearchFrom(re, s, i) ==
    IF i > Len(s) + 1 THEN NoMatch ELSE OrMatch(MatchAt(re, s, i), SearchFrom(re, s, i + 1))

\* re.search(s)
Search(re, s) == SearchFrom(re, s, 1)

\* whether re.search(s) finds a match
Matches(re, s) == Search(re, s).start # 0

\* re.finditer(s): the successive non-overlapping matches, left to right
RECURSIVE FindIterFrom(_, _, _), IterNext(_, _, _)
FindIterFrom(re, s, i) == IterNext(re, s, SearchFrom(re, s, i))
IterNext(re, s, m) ==
    IF m.start = 0 THEN <<>>
    ELSE <<m>> \o FindIterFrom(re, s, IF m.end > m.start THEN m.end ELSE m.end + 1)
FindIter(re, s) == FindIterFrom(re, s, 1)

\* m.group(n): the captured text (empty when the group did not take part)
Group(s, m, n) == Slice(s, m.caps[n][1], m.caps[n][2] - 1)
\* whether group n took part in the match
HasGroup(m, n) == m.caps[n][1] # 0

\* the words of the patterns, as character sequences
RM_ == <<"R","M">>
MYR_ == <<"M","Y","R">>
R_ == <<"R">>
M_ == <<"M">>
GRAND_ == <<"G","R","A","N","D">>
TOTAL_ == <<"T","O","T","A","L">>
AMOUNT_ == <<"A","M","O","U","N","T">>
PAYABLE_ == <<"P","A","Y","A","B","L","E">>
PRICE_ == <<"P","R","I","C","E">>
NET_ == <<"N","E","T">>
DUE_ == <<"D","U","E">>
BALANCE_ == <<"B","A","L","A","N","C","E">>
AFTER_ == <<"A","F","T","E","R">>
DISCOUNT_ == <<"D","I","S","C","O","U","N","T">>
QTY_ == <<"Q","T","Y">>
X_ == <<"X">>
PCS_ == <<"P","C","S">>
UNIT_ == <<"U","N","I","T">>
UNITS_ == <<"U","N","I","T","S">>
PIECE_ == <<"P","I","E","C","E">>
PIECES_ == <<"P","I","E","C","E","S">>
REMARK_ == <<"R","E","M","A","R","K">>
S_ == <<"S">>
THANK_ == <<"T","H","A","N","K">>
CASH_ == <<"C","A","S","H">>
KHIND_ == <<"K","H","I","N","D">>

\* ------------------------------------------------------------------------
\* the patterns of parsers.py
\* ------------------------------------------------------------------------

D  == Set(DigitSet)
WS == Set(SpaceSet)
\* (?:\.\d{2})
Dec2 == Cat(<<Set({"."}), Rep(D, 2, 2)>>)
\* \d{1,3}(?:,\d{3})*
Thousands == Cat(<<Rep(D, 1, 3), Star(Cat(<<Set({","}), Rep(D, 3, 3)>>))>>)

\* (?:\d{1,3}(?:,\d{3})*(?:\.\d{2})|\d+(?:\.\d{2})?)
_NUM == Alt(<<Cat(<<Thousands, Dec2>>), Cat(<<Plus(D), Opt(Dec2)>>)>>)
\* (?:RM|MYR|R\s*M), always compiled with re.I
_CCY == Alt(<<LitI(RM_), LitI(MYR_), Cat(<<LitI(R_), Star(WS), LitI(M_)>>)>>)
\* [:=\-\s]*
_SEP == Star(Set({":", "=", "-"} \cup SpaceSet))

\* word1 \s* word2
Words2(a, b) == Cat(<<LitI(a), Star(WS), LitI(b)>>)
KW_TOTAL == Alt(<<Words2(GRAND_, TOTAL_), Words2(TOTAL_, AMOUNT_), Words2(TOTAL_, PAYABLE_),
                  Words2(TOTAL_, PRICE_), Words2(NET_, AMOUNT_), Words2(NET_, TOTAL_),
                  Words2(AMOUNT_, DUE_), Words2(AMOUNT_, PAYABLE_), Words2(BALANCE_, DUE_),
                  Cat(<<LitI(TOTAL_), Star(WS), LitI(AFTER_), Star(WS), LitI(DISCOUNT_)>>),
                  Cat(<<LitI(TOTAL_), WB>>)>>)

RE_KW_LEFT  == Cat(<<KW_TOTAL, _SEP, Opt(_CCY), Star(WS), Grp(1, _NUM), WB>>)
RE_KW_RIGHT == Cat(<<KW_TOTAL, _SEP, Grp(1, _NUM), Star(WS), _CCY, WB>>)
RE_ANY_CCY  == Cat(<<_CCY, Star(WS), Grp(1, _NUM), WB>>)
RE_ANY_NUM  == Grp(1, _NUM)

\* compiled without re.I
UD == Set(UpperSet \cup DigitSet)
PRODUCT_CODE_RE ==
    Cat(<<NotBehind(UpperSet \cup DigitSet),
          Grp(1, Cat(<<Rep(Set(UpperSet), 2, -1), Rep(Set(UpperSet \cup DigitSet \cup {"-"}), 1, -1)>>)),
          NotAhead(UpperSet \cup DigitSet)>>)

QTY_RE ==
    Alt(<<Cat(<<WB, Alt(<<LitI(QTY_), Cat(<<LitI(QTY_), Set({":"})>>), Cat(<<LitI(QTY_), Set({"."})>>),
                          Cat(<<LitI(QTY_), Set({"="})>>), Cat(<<LitI(QTY_), Plus(WS)>>)>>),
                Star(WS), Grp(1, Plus(D)), WB>>),
          Cat(<<WB, Grp(2, Plus(D)), LitI(X_), WB>>),
          Cat(<<WB, LitI(X_), Grp(3, Plus(D)), WB>>),
          Cat(<<WB, Grp(4, Plus(D)), Star(WS),
                Alt(<<LitI(PCS_), LitI(UNIT_), LitI(UNITS_), Cat(<<LitI(PCS_), Set({"."})>>)>>), WB>>)>>)

\* the named groups of PRICE_TOKEN_RE
G_ccy    == 1
G_ccyval == 2
G_dec    == 3
PRICE_TOKEN_RE ==
    Alt(<<Cat(<<Grp(G_ccy, _CCY), Star(WS),
                Grp(G_ccyval, Alt(<<Cat(<<Thousands, Opt(Dec2)>>), Cat(<<Plus(D), Dec2>>)>>))>>),
          Cat(<<NotBehind(AlphaSet), Grp(G_dec, Cat(<<Thousands, Dec2>>)), NotAhead(AlphaSet)>>)>>)

_QTY_WORDS_RE ==
    Cat(<<WB, Grp(1, Alt(<<LitI(QTY_), LitI(UNIT_), LitI(UNITS_), LitI(PCS_),
                           Cat(<<LitI(PCS_), Set({"."})>>), LitI(PIECE_), LitI(PIECES_),
                           Cat(<<LitI(X_), Plus(D)>>), Cat(<<Plus(D), LitI(X_)>>)>>)), WB>>)

_STOP_AFTER_RE ==
    Cat(<<WB, Grp(1, Alt(<<LitI(TOTAL_), Words2(GRAND_, TOTAL_), LitI(BALANCE_),
                           Cat(<<LitI(REMARK_), Opt(LitI(S_))>>), LitI(THANK_),
                           Cat(<<LitI(CASH_), Star(WS), LitI(R_), Opt(LitI(M_))>>)>>)), WB>>)

_POSTCODE_RE == Cat(<<WB, Grp(1, Rep(D, 5, 5)), WB>>)

\* ------------------------------------------------------------------------
\* numbers
\* ------------------------------------------------------------------------

\* Optional[str]: None is a value no string equals
None == <<"None">>
\* Optional[float]: None is a value no amount of cents equals
NoneVal == -1

\* the plausibility bound 2.0 <= val <= 100000.0, in cents
MIN_AMOUNT == 200
MAX_AMOUNT == 10000000
InBound(val) == MIN_AMOUNT <= val /\ val <= MAX_AMOUNT

\* s.replace(c, "")
RECURSIVE Without(_, _)
Without(s, c) ==
    IF s = <<>> THEN <<>>
    ELSE (IF Head(s) = c THEN <<>> ELSE <<Head(s)>>) \o Without(Tail(s), c)

\* s.count(c)
RECURSIVE Count(_, _)
Count(s, c) == IF s = <<>> THEN 0 ELSE (IF Head(s) = c THEN 1 ELSE 0) + Count(Tail(s), c)

\* the last position of c in s, 0 when there is none (s.rfind(c) + 1)
RECURSIVE RFind(_, _)
RFind(s, c) ==
    IF s = <<>> THEN 0 ELSE IF s[Len(s)] = c THEN Len(s) ELSE RFind(Slice(s, 1, Len(s) - 1), c)

\* the first position of c in s, 0 when there is none
RECURSIVE FindChar(_, _, _)
FindChar(s, c, i) ==
    IF i > Len(s) THEN 0 ELSE IF s[i] = c THEN i ELSE FindChar(s, c, i + 1)

\* str.isdigit() of a non-empty string: the characters are all digits
AllDigits(a) == \A i \in 1..Len(a) : a[i] \in DigitSet

\* int(s) of a digit string ("" counts 0)
RECURSIVE ToInt(_)
ToInt(s) == IF s = <<>> THEN 0 ELSE ToInt(Slice(s, 1, Len(s) - 1)) * 10 + DigitVal(s[Len(s)])

\* str(n) for n >= 0
RECURSIVE IntStr(_)
IntStr(n) == IF n < 10 THEN <<DIGITS[n + 1]>> ELSE IntStr(n \div 10) \o <<DIGITS[(n % 10) + 1]>>

\* the cents of the decimal number "ip.fp" rounded to two decimals, as
\* "%.2f" rounds: by the digits after the second decimal (a third decimal
\* of exactly 5 followed by nothing but zeros is decided by the binary
\* value of the float and is kept out of the inputs)
Cents(ip, fp) ==
    LET f2   == Slice(fp \o <<"0", "0">>, 1, 2)
        rest == Slice(fp, 3, Len(fp))
        up   == rest # <<>> /\ DigitVal(rest[1]) >= 5
    IN  ToInt(ip) * 100 + ToInt(f2) + (IF up THEN 1 ELSE 0)

\* float(r), in cents, for r digits with at most one "." at position dot
DecimalCents(r, dot) ==
    IF dot = 0 THEN Cents(r, <<>>) ELSE Cents(Slice(r, 1, dot - 1), Slice(r, dot + 1, Len(r)))
FloatCents(r) == DecimalCents(r, FindChar(r, ".", 1))

\* float(s.replace(",", "")), in cents, for s a number a pattern captured
\* (digits, commas, at most one "." followed by two digits)
_to_float(s) == FloatCents(Without(s, ","))

\* f"RM{val:.2f}"
FormatRM(val) ==
    RM_ \o IntStr(val \div 100) \o <<".">> \o <<DIGITS[((val \div 10) % 10) + 1], DIGITS[(val % 10) + 1]>>

\* ------------------------------------------------------------------------
\* KHIND row -> price
\* ------------------------------------------------------------------------

\* hits.sort(key=lambda x: x[0]): a stable insertion sort by position
RECURSIVE InsertByPos(_, _)
InsertByPos(sorted, c) ==
    IF sorted = <<>> THEN <<c>>
    ELSE IF sorted[Len(sorted)].pos <= c.pos THEN Append(sorted, c)
    ELSE Append(InsertByPos(Slice(sorted, 1, Len(sorted) - 1), c), sorted[Len(sorted)])
RECURSIVE SortByPos(_)
SortByPos(hits) ==
    IF hits = <<>> THEN <<>>
    ELSE InsertByPos(SortByPos(Slice(hits, 1, Len(hits) - 1)), hits[Len(hits)])

\* the (position, value, score) of one match of PRICE_TOKEN_RE
PriceHit(line, m) ==
    IF HasGroup(m, G_ccy)
    THEN [pos |-> m.caps[G_ccyval][1], val |-> _to_float(Group(line, m, G_ccyval)), s |-> 3]
    ELSE [pos |-> m.caps[G_dec][1], val |-> _to_float(Group(line, m, G_dec)), s |-> 2]

PriceHits(line, ms) == [k \in 1..Len(ms) |-> PriceHit(line, ms[k])]

_price_candidates(line) == SortByPos(PriceHits(line, FindIter(PRICE_TOKEN_RE, line)))

\* the indices of the lines that hold the marker
RECURSIVE KhindRowsFrom(_, _)
KhindRowsFrom(lines, i) ==
    IF i > Len(lines) THEN <<>>
    ELSE (IF Contains(Upper(lines[i]), KHIND_) THEN <<i>> ELSE <<>>) \o KhindRowsFrom(lines, i + 1)
_find_khind_rows(lines) == KhindRowsFrom(lines, 1)

\* span_start, span_end are 1-based here: line[left:right] of the code is
\* the characters max(1, span_start - 10) .. min(len, span_end + 9)
_looks_like_qty_context(line, span_start, span_end) ==
    Matches(_QTY_WORDS_RE, Slice(line, Max(1, span_start - 10), Min(Len(line), span_end + 9)))

\* the candidate a loop of _choose_rightmost_best accepts
Acceptable(c, line) == InBound(c.val) /\ ~_looks_like_qty_context(line, c.pos, c.pos + 1)

\* for ... in reversed(cs): the value of the last acceptable candidate
RECURSIVE LastAcceptable(_, _)
LastAcceptable(cs, line) ==
    IF cs = <<>> THEN NoneVal
    ELSE IF Acceptable(cs[Len(cs)], line) THEN cs[Len(cs)].val
    ELSE LastAcceptable(Slice(cs, 1, Len(cs) - 1), line)

\* WithScore as it would be if the score were not compared
WithScore_Any(cands, best) == cands

\* [c for c in cands if c[2] == best]
RECURSIVE WithScore(_, _)
WithScore(cands, best) ==
    IF cands = <<>> THEN <<>>
    ELSE (IF Head(cands).s = best THEN <<Head(cands)>> ELSE <<>>) \o WithScore(Tail(cands), best)

\* max(s for _, _, s in cands)
BestScore(cands) == CHOOSE b \in {cands[k].s : k \in 1..Len(cands)} :
                        \A k \in 1..Len(cands) : cands[k].s <= b

\* a if it is a value, else b
OrElseVal(a, b) == IF a # NoneVal THEN a ELSE b

_choose_rightmost_best(cands, line) ==
    IF cands = <<>> THEN NoneVal
    ELSE OrElseVal(LastAcceptable(WithScore(cands, BestScore(cands)), line),
                   LastAcceptable(cands, line))

LOOKAHEAD == 4

\* WindowFrom as it would be if a stop line were skipped (continue for break)
RECURSIVE WindowFrom_Continue(_, _, _)
WindowFrom_Continue(lines, j, last) ==
    IF j > last THEN <<>>
    ELSE IF Matches(_STOP_AFTER_RE, lines[j]) THEN WindowFrom_Continue(lines, j + 1, last)
    ELSE <<j>> \o WindowFrom_Continue(lines, j + 1, last)

\* window_idxs: idx .. idx + LOOKAHEAD, cut before the first stop line
RECURSIVE WindowFrom(_, _, _)
WindowFrom(lines, j, last) ==
    IF j > last THEN <<>>
    ELSE IF Matches(_STOP_AFTER_RE, lines[j]) THEN <<>>
    ELSE <<j>> \o WindowFrom(lines, j + 1, last)
Window(lines, idx) == WindowFrom(lines, idx, Min(Len(lines), idx + LOOKAHEAD))

\* the loop variables of _khind_line_amount: marker line idx, window line
\* j, the value chosen on line j (found when val is not None)
NoHit == [found |-> FALSE, idx |-> 0, j |-> 0, val |-> NoneVal]
Hit(idx, j, val) == [found |-> val # NoneVal, idx |-> idx, j |-> j, val |-> val]
OrHit(a, b) == IF a.found THEN a ELSE b

\* cands = _price_candidates(lines[j]); val = _choose_rightmost_best(cands, lines[j])
LineValue(ln) == _choose_rightmost_best(_price_candidates(ln), ln)

\* ScanWindow as it would be if the window were scanned from its top
RECURSIVE ScanWindow_TopDown(_, _, _)
ScanWindow_TopDown(lines, idx, w) ==
    IF w = <<>> THEN NoHit
    ELSE OrHit(Hit(idx, Head(w), LineValue(lines[Head(w)])),
               ScanWindow_TopDown(lines, idx, Tail(w)))

\* for j in reversed(window_idxs): the first line with a chosen value
RECURSIVE ScanWindow(_, _, _)
ScanWindow(lines, idx, w) ==
    IF w = <<>> THEN NoHit
    ELSE OrHit(Hit(idx, w[Len(w)], LineValue(lines[w[Len(w)]])),
               ScanWindow(lines, idx, Slice(w, 1, Len(w) - 1)))

\* for idx, ln in _find_khind_rows(lines): the first window with a value
RECURSIVE ScanRows(_, _)
ScanRows(lines, rows) ==
    IF rows = <<>> THEN NoHit
    ELSE OrHit(ScanWindow(lines, Head(rows), Window(lines, Head(rows))),
               ScanRows(lines, Tail(rows)))

\* the loop variables of _khind_line_amount where it returns
KhindHit(lines) == ScanRows(lines, _find_khind_rows(lines))

\* return f"RM{val:.2f}" where a value was found, None at the end
HitAmount(hit) == IF hit.found THEN FormatRM(hit.val) ELSE None

_khind_line_amount(lines) == HitAmount(KhindHit(lines))

\* ------------------------------------------------------------------------
\* amount spent
\* ------------------------------------------------------------------------

\* a if it is a string, else b
OrElse(a, b) == IF a # None THEN a ELSE b

\* RE_KW_LEFT.search(ln) or RE_KW_RIGHT.search(ln)
KwMatch(ln) == OrMatch(Search(RE_KW_LEFT, ln), Search(RE_KW_RIGHT, ln))

\* if m: val = _to_float(m.group(1))
GroupValue(ln, m) == IF m.start # 0 THEN _to_float(Group(ln, m, 1)) ELSE NoneVal

\* BoundedAmount as it would be without the test of the bound
BoundedAmount_NoBound(val) == IF val # NoneVal THEN FormatRM(val) ELSE None

\* if 2.0 <= val <= 100000.0: return f"RM{val:.2f}"
BoundedAmount(val) == IF val # NoneVal /\ InBound(val) THEN FormatRM(val) ELSE None

\* the keyword loop: the first line whose keyword match is within the bound
RECURSIVE KeywordAmount(_)
KeywordAmount(lines) ==
    IF lines = <<>> THEN None
    ELSE OrElse(BoundedAmount(GroupValue(Head(lines), KwMatch(Head(lines)))),
                KeywordAmount(Tail(lines)))

\* the values group 1 captures in the matches ms of one line
GroupValues(ln, ms) == [k \in 1..Len(ms) |-> _to_float(Group(ln, ms[k], 1))]

\* the values group 1 of re captures on all lines, in order
RECURSIVE AllValues(_, _)
AllValues(re, lines) ==
    IF lines = <<>> THEN <<>>
    ELSE GroupValues(Head(lines), FindIter(re, Head(lines))) \o AllValues(re, Tail(lines))

\* max(cands)
MaxOf(cands) == CHOOSE v \in Range(cands) : \A w \in Range(cands) : w <= v

\* if cands: val = max(cands); if 2.0 <= val <= 100000.0: return ...
MaxAmount(cands) == IF cands # <<>> THEN BoundedAmount(MaxOf(cands)) ELSE None

CcyAmount(lines)  == MaxAmount(AllValues(RE_ANY_CCY, lines))
BareAmount(lines) == MaxAmount(AllValues(RE_ANY_NUM, lines))

extract_amount_spent(lines) ==
    IF lines = <<>> THEN None
    ELSE OrElse(_khind_line_amount(lines),
         OrElse(KeywordAmount(lines),
         OrElse(CcyAmount(lines), BareAmount(lines))))

\* ------------------------------------------------------------------------
\* products
\* ------------------------------------------------------------------------

\* Optional[List[str]]: None is a value no list of strings equals
NoList == <<None>>

\* for g in q.groups(): if g and g.isdigit(): qty = int(g); break
RECURSIVE FirstGroupInt(_, _, _)
FirstGroupInt(ln, m, n) ==
    IF n > 4 THEN 1
    ELSE IF HasGroup(m, n) /\ Group(ln, m, n) # <<>> /\ AllDigits(Group(ln, m, n))
         THEN ToInt(Group(ln, m, n))
    ELSE FirstGroupInt(ln, m, n + 1)

\* qty = 1; q = QTY_RE.search(ln); if q: ...
MatchQty(ln, m) == IF m.start = 0 THEN 1 ELSE FirstGroupInt(ln, m, 1)
LineQty(ln) == MatchQty(ln, Search(QTY_RE, ln))

\* a (name, quantity) pair
Item(name, qty) == [name |-> name, qty |-> qty]
\* the key (name.casefold(), qty) of an item
ItemKey(it) == <<Lower(it.name), it.qty>>
\* the set seen: the keys of the items appended so far
Seen(out) == {ItemKey(out[k]) : k \in 1..Len(out)}

\* [(p, p.upper()) for p in preferred_items if isinstance(p, str) and p.strip()]
RECURSIVE NonBlank(_)
NonBlank(ps) ==
    IF ps = <<>> THEN <<>>
    ELSE (IF Strip(Head(ps)) # <<>> THEN <<Head(ps)>> ELSE <<>>) \o NonBlank(Tail(ps))

\* the two loops of _match_preferred_items, at line i and hint h
RECURSIVE PreferredLoop(_, _, _, _, _, _), PreferredAppended(_, _, _, _, _, _)
PreferredLoop(lines, pref, max_items, i, h, out) ==
    IF i > Len(lines) THEN out
    ELSE IF h > Len(pref) THEN PreferredLoop(lines, pref, max_items, i + 1, 1, out)
    ELSE IF /\ Contains(Upper(lines[i]), Upper(pref[h]))
            /\ ItemKey(Item(Strip(pref[h]), LineQty(lines[i]))) \notin Seen(out)
         THEN PreferredAppended(lines, pref, max_items, i, h,
                                Append(out, Item(Strip(pref[h]), LineQty(lines[i]))))
    ELSE PreferredLoop(lines, pref, max_items, i, h + 1, out)
\* if len(out) >= max_items: return out
PreferredAppended(lines, pref, max_items, i, h, out) ==
    IF Len(out) >= max_items THEN out
    ELSE PreferredLoop(lines, pref, max_items, i, h + 1, out)

_match_preferred_items(lines, preferred_items, max_items) ==
    PreferredLoop(lines, NonBlank(preferred_items), max_items, 1, 1, <<>>)

\* the result of a loop that may return from the function
Loop(items, returned) == [items |-> items, returned |-> returned]

\* for i, ln in _find_khind_rows(lines): items.append((ln.strip(), qty));
\* if len(items) >= max_items: return items
RECURSIVE KhindRowItems(_, _, _, _), KhindRowAppended(_, _, _, _)
KhindRowItems(lines, rows, max_items, items) ==
    IF rows = <<>> THEN Loop(items, FALSE)
    ELSE KhindRowAppended(lines, Tail(rows), max_items,
                          Append(items, Item(Strip(lines[Head(rows)]), LineQty(lines[Head(rows)]))))
KhindRowAppended(lines, rows, max_items, items) ==
    IF Len(items) >= max_items THEN Loop(items, TRUE)
    ELSE KhindRowItems(lines, rows, max_items, items)

\* code.strip("-")
RECURSIVE LStripDash(_)
LStripDash(s) == IF s # <<>> /\ Head(s) = "-" THEN LStripDash(Tail(s)) ELSE s
RECURSIVE RStripDash(_)
RStripDash(s) == IF s # <<>> /\ s[Len(s)] = "-" THEN RStripDash(Slice(s, 1, Len(s) - 1)) ELSE s
StripDash(s) == RStripDash(LStripDash(s))

\* items with the product code of ln appended, when ln holds one
CodeAppended(ln, m, items) ==
    IF m.start = 0 THEN items
    ELSE Append(items, Item(StripDash(Group(ln, m, 1)), LineQty(ln)))

\* for ln in lines: if len(items) >= max_items: break; ...
RECURSIVE CodeItems(_, _, _)
CodeItems(lines, max_items, items) ==
    IF lines = <<>> \/ Len(items) >= max_items THEN items
    ELSE CodeItems(Tail(lines), max_items,
                   CodeAppended(Head(lines), Search(PRODUCT_CODE_RE, Head(lines)), items))

\* if preferred_items is None and PREFERRED_PRODUCT_HINTS: preferred_items = ...
EffectiveHints(preferred_items, global) ==
    IF preferred_items = NoList /\ global # NoList /\ global # <<>> THEN global ELSE preferred_items

\* if preferred_items: items.extend(_match_preferred_items(...))
PreferredItems(lines, max_items, hints) ==
    IF hints # NoList /\ hints # <<>> THEN _match_preferred_items(lines, hints, max_items) ELSE <<>>

\* the rest of extract_products after the curated stage left items
AfterKhindRows(lines, max_items, loop) ==
    IF loop.returned THEN loop.items ELSE CodeItems(lines, max_items, loop.items)
AfterPreferred(lines, max_items, hints, items) ==
    IF hints # NoList /\ hints # <<>> /\ Len(items) >= max_items THEN items
    ELSE AfterKhindRows(lines, max_items,
                        KhindRowItems(lines, _find_khind_rows(lines), max_items, items))

\* extract_products, with the module's PREFERRED_PRODUCT_HINTS as global
ExtractProducts(lines, max_items, hints) ==
    AfterPreferred(lines, max_items, hints, PreferredItems(lines, max_items, hints))
extract_products(lines, max_items, preferred_items, global) ==
    ExtractProducts(lines, max_items, EffectiveHints(preferred_items, global))

\* ------------------------------------------------------------------------
\* store name
\* ------------------------------------------------------------------------

STORE_HINTS == <<
    <<"K","h","i","n","d"," ","C","u","s","t","o","m","e","r"," ","S","e","r","v","i","c","e"," ","S","D","N"," ","B","H","D">>,
    <<"A","E","O","N"," ","B","I","G">>,
    <<"J","a","y","a"," ","S","u","p","e","r","s","t","o","r","e">>,
    <<"H","o","m","e","P","r","o">>,
    <<"X","i","n","g","L","e","e"," ","E","l","e","c","t","r","i","c","a","l"," ","&"," ","H","I","F","I"," ","C","e","n","t","r","a","l"," ","S","D","N"," ","B","H","D">>,
    <<"A","E","O","N"," ","B","i","g">>,
    <<"S","K"," ","H","a","r","d","w","a","r","e">>,
    <<"S","K"," ","S","E","R","I","E","S"," ","E","N","T","E","R","P","R","I","S","E">>,
    <<"J","A","Y","A"," ","G","R","O","C","E","R">>,
    <<"S","N","F"," ","O","N","L","I","N","E"," ","(","M",")"," ","S","D","N"," ","B","H","D">>,
    <<"K","e","m","u","d","i"," ","T","i","m","u","r">>,
    <<"E","C","O","N","S","A","V","E"," ","C","A","S","H"," ","&"," ","C","A","R","R","Y"," ","(","F","H",")"," ","S","D","N"," ","B","H","D">>,
    <<"S","E","N","H","E","N","G">>,
    <<"H","A","R","V","E","Y"," ","N","O","R","M","A","N">>,
    <<"S","e","r","u","a","y"," ","E","v","e","r","g","r","e","e","n"," ","S","D","N"," ","B","H","D">>,
    <<"D","Y","N","A","P","O","W","E","R"," ","E","N","T","E","R","P","R","I","S","E">>,
    <<"S","E","N","G"," ","H","U","A","T"," ","E","L","E","C","T","R","I","C","A","L"," ","&"," ","H","O","M","E"," ","A","P","P","L","I","A","N","C","E","S"," ","S","D","N"," ","B","H","D">>,
    <<"S","U","R","I","A"," ","J","E","R","A","I"," ","E","L","E","C","T","R","I","C","A","L"," ","S","D","N"," ","B","H","D">>,
    <<"D","i","v","a"," ","L","i","g","h","t","i","n","g">>,
    <<"S","h","o","p","e","e"," ","O","n","l","i","n","e">>,
    <<"L","S","S"," ","H","Y","P","E","R"," ","E","L","E","C","T","R","I","C","A","L"," ","S","D","N"," ","B","H","D">>,
    <<"I","K","A"," ","H","o","u","s","e","w","a","r","e"," ","M","a","l","a","y","s","i","a"," ","S","D","N"," ","B","H","D">>,
    <<"Y","I","N","G"," ","M","I","E","W"," ","H","O","L","D","I","N","G","S">>,
    <<"S","Y","A","R","I","K","A","T"," ","L","E","T","R","I","K"," ","L","I","M"," ","&"," ","O","N","G"," ","S","D","N"," ","B","H","D">>,
    <<"J","a","y","a">>,
    <<"K","H","I","N","D">>,
    <<"S","D","N"," ","B","H","D">>,
    <<"E","L","E","C","T","R","I","C","A","L">>,
    <<"S","U","P","E","R","M","A","R","K","E","T">>,
    <<"H","Y","P","E","R">>,
    <<"S","T","O","R","E">>,
    <<"L","I","G","H","T","I","N","G">>>>

\* any(h in s for h in hints)
ContainsAny(s, hints) == \E k \in 1..Len(hints) : Contains(s, hints[k])

\* [s.upper() for s in hints]
UpperAll(hints) == [k \in 1..Len(hints) |-> Upper(hints[k])]

_contains_store_hint(text) == ContainsAny(Upper(text), STORE_HINTS)

\* re.sub(r"[\s\W_]+", " ", s): every run of characters that are not
\* letters or digits becomes one space
RECURSIVE CollapseNonWord(_, _)
CollapseNonWord(s, inRun) ==
    IF s = <<>> THEN <<>>
    ELSE IF Head(s) \in AlphaSet \cup DigitSet
         THEN <<Head(s)>> \o CollapseNonWord(Tail(s), FALSE)
    ELSE (IF inRun THEN <<>> ELSE <<" ">>) \o CollapseNonWord(Tail(s), TRUE)

_norm(s) == Strip(CollapseNonWord(Upper(s), FALSE))

\* lines[:12]
TOP_LINES == 12
Top(lines) == Slice(lines, 1, Min(Len(lines), TOP_LINES))

\* (ln.strip(), _norm(ln)) and the stage that returned it; None is found = FALSE
NoStore == [found |-> FALSE, store |-> <<>>, key |-> <<>>, by |-> "none"]
StoreOf(ln, by) == [found |-> TRUE, store |-> Strip(ln), key |-> _norm(ln), by |-> by]
OrStore(a, b) == IF a.found THEN a ELSE b

\* FirstPreferred as it would be if the loop kept the last matching line
RECURSIVE FirstPreferred_Last(_, _)
FirstPreferred_Last(top, pref_up) ==
    IF top = <<>> THEN NoStore
    ELSE IF ContainsAny(Upper(top[Len(top)]), pref_up) THEN StoreOf(top[Len(top)], "preferred")
    ELSE FirstPreferred_Last(Slice(top, 1, Len(top) - 1), pref_up)

\* for ln in top: if any(s in ln.upper() for s in pref_up): return ...
RECURSIVE FirstPreferred(_, _)
FirstPreferred(top, pref_up) ==
    IF top = <<>> THEN NoStore
    ELSE IF ContainsAny(Upper(Head(top)), pref_up) THEN StoreOf(Head(top), "preferred")
    ELSE FirstPreferred(Tail(top), pref_up)

\* for ln in top: if _contains_store_hint(ln): return ...
RECURSIVE FirstGeneric(_)
FirstGeneric(top) ==
    IF top = <<>> THEN NoStore
    ELSE IF _contains_store_hint(Head(top)) THEN StoreOf(Head(top), "generic")
    ELSE FirstGeneric(Tail(top))

\* ln.strip() and ln.strip().upper() == ln.strip()
IsAllCaps(ln) == Strip(ln) # <<>> /\ Upper(Strip(ln)) = Strip(ln)

\* for ln in top: if ln.strip() and ln.strip().upper() == ln.strip(): return ...
RECURSIVE FirstAllCaps(_)
FirstAllCaps(top) ==
    IF top = <<>> THEN NoStore
    ELSE IF IsAllCaps(Head(top)) THEN StoreOf(Head(top), "allcaps")
    ELSE FirstAllCaps(Tail(top))

\* for ln in top: if ln.strip(): return ...
RECURSIVE FirstNonEmpty(_)
FirstNonEmpty(top) ==
    IF top = <<>> THEN NoStore
    ELSE IF Strip(Head(top)) # <<>> THEN StoreOf(Head(top), "first")
    ELSE FirstNonEmpty(Tail(top))

\* if preferred_stores is None and PREFERRED_STORE_HINTS: preferred_stores = ...
EffectiveStores(preferred_stores, global) ==
    IF preferred_stores = NoList /\ global # NoList /\ global # <<>> THEN global ELSE preferred_stores

\* if preferred_stores: ... the curated stage
PreferredStore(top, stores) ==
    IF stores # NoList /\ stores # <<>> THEN FirstPreferred(top, UpperAll(stores)) ELSE NoStore

MatchStore(top, stores) ==
    OrStore(PreferredStore(top, stores),
    OrStore(FirstGeneric(top),
    OrStore(FirstAllCaps(top), FirstNonEmpty(top))))

\* _match_known_store, with the module's PREFERRED_STORE_HINTS as global
_match_known_store(lines, preferred_stores, global) ==
    MatchStore(Top(lines), EffectiveStores(preferred_stores, global))

\* m[0] if m else None
StoreName(m) == IF m.found THEN m.store ELSE None
extract_store_name(lines, preferred_stores, global) ==
    StoreName(_match_known_store(lines, preferred_stores, global))

\* ------------------------------------------------------------------------
\* store location
\* ------------------------------------------------------------------------

MALAYSIAN_STATES == <<
    <<"J","o","h","o","r">>,
    <<"K","e","d","a","h">>,
    <<"K","e","l","a","n","t","a","n">>,
    <<"M","a","l","a","c","c","a">>,
    <<"M","e","l","a","k","a">>,
    <<"N","e","g","e","r","i"," ","S","e","m","b","i","l","a","n">>,
    <<"P","a","h","a","n","g">>,
    <<"P","e","n","a","n","g">>,
    <<"P","u","l","a","u"," ","P","i","n","a","n","g">>,
    <<"P","e","r","a","k">>,
    <<"P","e","r","l","i","s">>,
    <<"S","a","b","a","h">>,
    <<"S","a","r","a","w","a","k">>,
    <<"S","e","l","a","n","g","o","r">>,
    <<"T","e","r","e","n","g","g","a","n","u">>,
    <<"K","u","a","l","a"," ","L","u","m","p","u","r">>,
    <<"W","P"," ","K","u","a","l","a"," ","L","u","m","p","u","r">>,
    <<"L","a","b","u","a","n">>,
    <<"P","u","t","r","a","j","a","y","a">>>>

\* s.replace(a, b) for single characters
ReplaceChar(s, a, b) == [i \in 1..Len(s) |-> IF s[i] = a THEN b ELSE s[i]]

\* the first position where sub starts in s, 0 when nowhere (s.find(sub) + 1)
RECURSIVE FindFrom(_, _, _)
FindFrom(s, sub, i) ==
    IF i + Len(sub) - 1 > Len(s) THEN 0
    ELSE IF Slice(s, i, i + Len(sub) - 1) = sub THEN i
    ELSE FindFrom(s, sub, i + 1)
Find(s, sub) == FindFrom(s, sub, 1)

\* s.split(sub, 1)[0] and s.split(sub, 1)[-1], with at the position of sub
HeadAt(s, at) == IF at = 0 THEN s ELSE Slice(s, 1, at - 1)
TailAt(s, sub, at) == IF at = 0 THEN s ELSE Slice(s, at + Len(sub), Len(s))
BeforeFirst(s, sub) == HeadAt(s, Find(s, sub))
AfterFirst(s, sub) == TailAt(s, sub, Find(s, sub))

\* s.split(): the maximal runs of characters that are not whitespace;
\* cur is the run being read
RECURSIVE SplitWSFrom(_, _)
SplitWSFrom(s, cur) ==
    IF s = <<>> THEN (IF cur = <<>> THEN <<>> ELSE <<cur>>)
    ELSE IF Head(s) \in SpaceSet
         THEN (IF cur = <<>> THEN <<>> ELSE <<cur>>) \o SplitWSFrom(Tail(s), <<>>)
    ELSE SplitWSFrom(Tail(s), Append(cur, Head(s)))
SplitWS(s) == SplitWSFrom(s, <<>>)

\* " ".join(tokens)
RECURSIVE Join(_)
Join(tokens) ==
    IF tokens = <<>> THEN <<>>
    ELSE IF Len(tokens) = 1 THEN tokens[1]
    ELSE tokens[1] \o <<" ">> \o Join(Tail(tokens))

\* re.split(r"[,;|-]", s): the pieces between the delimiters, empty ones too
RECURSIVE SplitOnFrom(_, _, _)
SplitOnFrom(s, seps, cur) ==
    IF s = <<>> THEN <<cur>>
    ELSE IF Head(s) \in seps THEN <<cur>> \o SplitOnFrom(Tail(s), seps, <<>>)
    ELSE SplitOnFrom(Tail(s), seps, Append(cur, Head(s)))
SplitOn(s, seps) == SplitOnFrom(s, seps, <<>>)

\* [p.strip() for p in ps if p.strip()]
RECURSIVE StrippedNonBlank(_)
StrippedNonBlank(ps) ==
    IF ps = <<>> THEN <<>>
    ELSE (IF Strip(Head(ps)) # <<>> THEN <<Strip(Head(ps))>> ELSE <<>>) \o StrippedNonBlank(Tail(ps))

\* [t for t in tokens if len(t) >= 2]
RECURSIVE LongTokens(_)
LongTokens(ts) ==
    IF ts = <<>> THEN <<>>
    ELSE (IF Len(Head(ts)) >= 2 THEN <<Head(ts)>> ELSE <<>>) \o LongTokens(Tail(ts))

\* re.sub(r"[^A-Za-z\s]", " ", s)
OnlyAlpha(s) == [i \in 1..Len(s) |-> IF s[i] \in AlphaSet \cup SpaceSet THEN s[i] ELSE " "]

\* str.title(): a letter is upper-cased after a character that is no letter
\* (or at the start) and lower-cased after a letter
Title(s) ==
    [i \in 1..Len(s) |->
        IF i > 1 /\ s[i - 1] \in AlphaSet THEN LowerChar(s[i]) ELSE UpperChar(s[i])]

\* " ".join(line.replace("|", ",").split())
CleanLine(line) == Join(SplitWS(ReplaceChar(line, "|", ",")))

\* for k, v in _STATE_SET.items(): if k in low: ... break -- the index of
\* the first region name, in the order of MALAYSIAN_STATES, that low holds
RECURSIVE FirstStateFrom(_, _)
FirstStateFrom(low, k) ==
    IF k > Len(MALAYSIAN_STATES) THEN 0
    ELSE IF Contains(low, Lower(MALAYSIAN_STATES[k])) THEN k
    ELSE FirstStateFrom(low, k + 1)

\* f"{city}, {state_norm}"
CityState(city, state_norm) == city \o <<",", " ">> \o state_norm

\* if city_tokens: return f"{city}, {state_norm}", else None here
TokensCity(city_tokens, state_norm) ==
    IF city_tokens # <<>> THEN CityState(Title(Strip(Join(city_tokens))), state_norm) ELSE None

\* the postcode branch: the text between the postcode and the region name
PostcodeCity(low, state_key, state_norm, postcode) ==
    TokensCity(LongTokens(SplitWS(OnlyAlpha(AfterFirst(BeforeFirst(low, state_key), postcode)))),
               state_norm)

\* if m_pc: ..., None when there is no postcode or no city token
MatchedPostcodeCity(txt, m_pc, state_key, state_norm) ==
    IF m_pc.start = 0 THEN None
    ELSE PostcodeCity(Lower(txt), state_key, state_norm, Group(txt, m_pc, 1))

\* if city: return f"{city}, {state_norm}"; return state_norm
CityOrState(city, state_norm) == IF city # <<>> THEN CityState(city, state_norm) ELSE state_norm

\* for i, seg in enumerate(parts): if state_key in seg.lower(): ...
RECURSIVE SegmentCity(_, _, _, _)
SegmentCity(parts, i, state_key, state_norm) ==
    IF i > Len(parts) THEN state_norm
    ELSE IF Contains(Lower(parts[i]), state_key)
         THEN (IF i > 1 THEN CityOrState(Title(Strip(OnlyAlpha(parts[i - 1]))), state_norm)
               ELSE state_norm)
    ELSE SegmentCity(parts, i + 1, state_key, state_norm)

\* the line txt, known to hold the region name state_norm
LineCityState(txt, state_norm) ==
    OrElse(MatchedPostcodeCity(txt, Search(_POSTCODE_RE, txt), Lower(state_norm), state_norm),
           SegmentCity(StrippedNonBlank(SplitOn(txt, {",", ";", "|", "-"})), 1,
                       Lower(state_norm), state_norm))

\* if not state_norm: return None
StateCityState(txt, k) == IF k = 0 THEN None ELSE LineCityState(txt, MALAYSIAN_STATES[k])
CleanCityState(txt) == StateCityState(txt, FirstStateFrom(Lower(txt), 1))

_extract_city_state_from_line(line) == CleanCityState(CleanLine(line))

\* Optional[dict]: None is a value no map equals; a map is the sequence of
\* its (key, location) items in insertion order
NoMap == <<[k |-> None, loc |-> None]>>

\* STORE_LOC_MAP[norm_key], None when norm_key is no key
RECURSIVE MapGet(_, _)
MapGet(map, norm_key) ==
    IF map = <<>> THEN None
    ELSE IF Head(map).k = norm_key THEN Head(map).loc
    ELSE MapGet(Tail(map), norm_key)

\* for k, loc in STORE_LOC_MAP.items(): if k and k in norm_key: return loc
RECURSIVE MapSubstring(_, _)
MapSubstring(map, norm_key) ==
    IF map = <<>> THEN None
    ELSE IF Head(map).k # <<>> /\ Contains(norm_key, Head(map).k) THEN Head(map).loc
    ELSE MapSubstring(Tail(map), norm_key)

\* for ln in lines[:20]: got = _extract_city_state_from_line(ln); if got: return got
TOP_LOCATION_LINES == 20
RECURSIVE FirstCityState(_)
FirstCityState(ls) ==
    IF ls = <<>> THEN None
    ELSE OrElse(_extract_city_state_from_line(Head(ls)), FirstCityState(Tail(ls)))

\* reversed(lines)
Reversed(ls) == [i \in 1..Len(ls) |-> ls[Len(ls) + 1 - i]]

\* if store_match and STORE_LOC_MAP: the curated map may be consulted
MapUsable(store_match, map) == store_match.found /\ map # NoMap /\ map # <<>>

\* LocExact as it would be without the lookup of the exact key
LocExact_Skipped(store_match, map) == None

\* the value a stage of extract_store_location returns, None when it goes on
LocExact(store_match, map) ==
    IF MapUsable(store_match, map) THEN MapGet(map, store_match.key) ELSE None
LocSubstring(store_match, map) ==
    IF MapUsable(store_match, map) THEN MapSubstring(map, store_match.key) ELSE None
LocTop(lines) == FirstCityState(Slice(lines, 1, Min(Len(lines), TOP_LOCATION_LINES)))
LocReversed(lines) == FirstCityState(Reversed(lines))

\* the stages of extract_store_location after store_match is known
LocateStore(lines, store_match, map) ==
    OrElse(LocExact(store_match, map),
    OrElse(LocSubstring(store_match, map),
    OrElse(LocTop(lines), LocReversed(lines))))

\* extract_store_location, with the module's PREFERRED_STORE_HINTS and
\* STORE_LOC_MAP as arguments (fallback_city and fallback_state are unused)
extract_store_location(lines, stores, map) ==
    LocateStore(lines, _match_known_store(lines, NoList, stores), map)

\* ------------------------------------------------------------------------
\* the numeric normalizer
\* ------------------------------------------------------------------------

\* re.sub(r"[^\d.,]", "", val or "")
RECURSIVE KeepNumeric(_)
KeepNumeric(s) ==
    IF s = <<>> THEN <<>>
    ELSE (IF Head(s) \in DigitSet \cup {".", ","} THEN <<Head(s)>> ELSE <<>>) \o KeepNumeric(Tail(s))
RawOf(val) == IF val = None THEN <<>> ELSE KeepNumeric(val)

\* raw.rsplit(c, 1)[-1].isdigit(), for raw that holds c
SuffixIsDigits(raw, at) == at < Len(raw) /\ AllDigits(Slice(raw, at + 1, Len(raw)))
\* raw.count(c) >= 1 and raw.rsplit(c, 1)[-1].isdigit()
LastGroupIsDigits(raw, c) == Count(raw, c) >= 1 /\ SuffixIsDigits(raw, RFind(raw, c))

\* the three branches that choose num
NumOf(raw) ==
    IF LastGroupIsDigits(raw, ".") THEN Without(raw, ",")
    ELSE IF LastGroupIsDigits(raw, ",") THEN ReplaceChar(Without(raw, "."), ",", ".")
    ELSE Without(raw, ",")

\* whether float(num) accepts num, a string of digits, "." and ",":
\* digits with at most one ".", and at least one digit
IsFloat(num) ==
    /\ Count(num, ",") = 0
    /\ Count(num, ".") <= 1
    /\ Len(num) > Count(num, ".")

\* try: return f"RM{float(num):.2f}" except Exception: return None
FormatNum(num) == IF IsFloat(num) THEN FormatRM(FloatCents(num)) ELSE None

NormalizeRaw(raw) == IF raw = <<>> THEN None ELSE FormatNum(NumOf(raw))
_normalize_amount(val) == NormalizeRaw(RawOf(val))

\* ------------------------------------------------------------------------
\* validity decision
\* ------------------------------------------------------------------------

Verdict(validity, reason) == [validity |-> validity, reason |-> reason]
INVALID_    == "INVALID"
VALID_      == "VALID"
ImageMissing == "Image missing"
OcrFailed    == "OCR failed"
NoTotalFound == "No total found"

\* decide_validity as it would be if products alone made a receipt valid
decide_validity_ProductsValid(amount_spent, products, image_missing) ==
    IF image_missing THEN Verdict(INVALID_, ImageMissing)
    ELSE IF amount_spent # None /\ amount_spent # <<>> THEN Verdict(VALID_, "")
    ELSE IF products # <<>> THEN Verdict(VALID_, "")
    ELSE Verdict(INVALID_, NoTotalFound)

\* amount_spent is None or a string, products a list; both are tested for truth
decide_validity(amount_spent, products, image_missing) ==
    IF image_missing THEN Verdict(INVALID_, ImageMissing)
    ELSE IF amount_spent # None /\ amount_spent # <<>> THEN Verdict(VALID_, "")
    ELSE IF products # <<>> THEN Verdict(INVALID_, NoTotalFound)
    ELSE Verdict(INVALID_, NoTotalFound)

\* ------------------------------------------------------------------------
\* the state
\* ------------------------------------------------------------------------

VARIABLES
    PREFERRED_STORE_HINTS,    \* parsers.py: the curated store hints, or None
    PREFERRED_PRODUCT_HINTS,  \* parsers.py: the curated product hints, or None
    STORE_LOC_MAP,            \* parsers.py: the curated store->location map, or None
    lines,            \* the receipt: the OCR'd lines, in order
    pc,               \* where the running function stands
    amount,           \* extract_amount_spent: the value returned (amount_spent)
    stage,            \* extract_amount_spent: the stage that returned
    khind,            \* _khind_line_amount: its loop variables where it returned
    items,            \* extract_products: the list items (products)
    max_items,        \* extract_products: its argument
    preferred_items,  \* extract_products: its argument
    store_match,      \* _match_known_store: the value returned
    preferred_stores, \* _match_known_store: its argument
    location,         \* extract_store_location: the value returned (store_loc)
    loc_by,           \* extract_store_location: the stage that returned
    val,              \* _normalize_amount: its argument
    raw,              \* _normalize_amount: the characters kept
    num,              \* _normalize_amount: the text handed to float()
    normalized,       \* _normalize_amount: the value returned
    n_rows,           \* process: the rows of the uploaded CSV
    n_images,         \* process: len(images_list)
    row_idx,          \* process: the row of the loop
    fb,               \* process: fb_city, fb_state of the row
    image_missing,    \* process: the row's flag
    ocr_error,        \* process: the row's flag
    store,            \* process: the row's store name
    verdict,          \* process: the row's (validity, reason)
    extracted_rows,   \* process: the output records
    flags,            \* the (image_missing, ocr_error) of each output record
    response          \* process: the HTTP status returned

globalVars  == <<PREFERRED_STORE_HINTS, PREFERRED_PRODUCT_HINTS, STORE_LOC_MAP>>
amountVars  == <<amount, stage, khind>>
productVars == <<items, max_items, preferred_items>>
storeVars   == <<store_match, preferred_stores, location, loc_by>>
normVars    == <<val, raw, num, normalized>>
processVars == <<n_rows, n_images, row_idx, fb, image_missing, ocr_error, store, verdict,
                 extracted_rows, flags, response>>
vars == <<globalVars, lines, pc, amountVars, productVars, storeVars, normVars, processVars>>

\* the values of the variables a function does not use
IdleGlobals ==
    PREFERRED_STORE_HINTS = NoList /\ PREFERRED_PRODUCT_HINTS = NoList /\ STORE_LOC_MAP = NoMap
IdleAmount  == amount = None /\ stage = "running" /\ khind = NoHit
IdleProduct == items = <<>> /\ max_items = 3 /\ preferred_items = NoList
IdleStore   == store_match = NoStore /\ preferred_stores = NoList /\ location = None /\ loc_by = "running"
IdleNorm    == val = None /\ raw = <<>> /\ num = <<>> /\ normalized = None
NoFallback  == [city_col |-> FALSE, state_col |-> FALSE, city |-> None, state |-> None]
IdleProcess ==
    /\ n_rows = 0 /\ n_images = 0 /\ row_idx = 0 /\ fb = NoFallback
    /\ image_missing = FALSE /\ ocr_error = FALSE /\ store = None
    /\ verdict = Verdict("", "") /\ extracted_rows = <<>> /\ flags = <<>> /\ response = ""

\* all sequences over S of length 0..n
SeqsUpTo(S, n) == UNION {[1..k -> S] : k \in 0..n}

\* the longest receipt made of arbitrary lines
MaxLines == 3

\* ------------------------------------------------------------------------
\* extract_amount_spent, stage by stage
\* ------------------------------------------------------------------------

\* receipt lines for the amount resolver
L_KhindBlender   == <<"K","H","I","N","D"," ","B","l","e","n","d","e","r">>
L_Total150       == <<"T","o","t","a","l"," ","R","M","1","5","0",".","0","0">>
L_RM45           == <<"R","M","4","5",".","0","0">>
L_Qty2           == <<"Q","t","y",":"," ","2">>
L_RM200000       == <<"R","M","2","0","0","0","0","0",".","0","0">>
L_Bare5          == <<"5">>
L_KhindFanPriced == <<"k","h","i","n","d"," ","f","a","n"," ","2"," ","x"," ","1","2",".","5","0"," ","R","M","2","5",".","0","0">>
L_Total1         == <<"T","o","t","a","l",":"," ","R","M","1",".","0","0">>

AmountLines == {L_KhindBlender, L_Total150, L_RM45, L_Qty2, L_RM200000, L_Bare5, L_KhindFanPriced, L_Total1}

\* the most filler lines between a marker line and its price line
MaxPad == 5

\* k lines that hold neither a price, a marker nor a stop word
Filler(k) == [i \in 1..k |-> L_Qty2]
\* a marker line, k filler lines, then a price line and a total line
PaddedReceipts == {<<L_KhindBlender>> \o Filler(k) \o <<L_RM45, L_Total150>> : k \in 0..MaxPad}

\* receipts for the order of the target-item scan
L_KhindFanDeluxe == <<"K","H","I","N","D"," ","F","a","n"," ","D","e","l","u","x","e">>
L_RM8990         == <<"R","M","8","9",".","9","0">>
\* the marker line, the quantity line and the price line of the scan example
ScanExample == <<L_KhindFanDeluxe, L_Qty2, L_RM8990>>
\* a marker whose window a stop line empties, then a marker with two priced lines
TwoMarkers  == <<L_KhindBlender, L_Total150, L_KhindFanPriced, L_RM45>>
\* two markers with priced windows, the second window ending on another price
TwoPriced   == <<L_KhindFanPriced, L_Qty2, L_KhindFanDeluxe, L_RM8990, L_RM45>>
ScanReceipts == {ScanExample, TwoMarkers, TwoPriced}

\* marker lines with several price tokens, for the choice within a line
L_LowCcy     == <<"K","H","I","N","D"," ","R","M","1",".","0","0"," ","4","5",".","0","0">>
L_TwoCcy     == <<"K","H","I","N","D"," ","1","2",".","5","0"," ","R","M","2","5",".","0","0"," ","R","M","3","0",".","0","0">>
L_QtyAfter   == <<"K","H","I","N","D"," ","R","M","2","5",".","0","0"," ","R","M","3","0",".","0","0"," ","x","2">>
L_CcyThenDec == <<"K","H","I","N","D"," ","R","M","3","0",".","0","0"," ","4","5",".","0","0">>
SelectorLines == {L_LowCcy, L_TwoCcy, L_QtyAfter, L_CcyThenDec}
SelectorReceipts == {<<ln>> : ln \in SelectorLines} \cup {<<L_KhindBlender, ln>> : ln \in SelectorLines}

AmountReceipts ==
    SeqsUpTo(AmountLines, MaxLines) \cup PaddedReceipts \cup ScanReceipts \cup SelectorReceipts

InitAmount ==
    /\ lines \in AmountReceipts
    /\ pc = "amount"
    /\ IdleAmount
    /\ IdleGlobals /\ IdleProduct /\ IdleStore /\ IdleNorm /\ IdleProcess

\* what no step of extract_amount_spent changes
AmountFrame == UNCHANGED <<globalVars, lines, productVars, storeVars, normVars, processVars>>

\* return amt when it is a value, else go on with the stage next
ReturnOrGo(amt, st, next) ==
    IF amt # None
    THEN amount' = amt /\ stage' = st /\ pc' = "done"
    ELSE pc' = next /\ UNCHANGED <<amount, stage>>

\* if not lines: return None
AmountNoLines ==
    /\ pc = "amount" /\ lines = <<>>
    /\ pc' = "done" /\ stage' = "no lines"
    /\ UNCHANGED <<amount, khind>>
    /\ AmountFrame

\* amt = _khind_line_amount(lines); if amt: return amt
AmountKhind ==
    /\ pc = "amount" /\ lines # <<>>
    /\ khind' = KhindHit(lines)
    /\ ReturnOrGo(HitAmount(khind'), "khind", "keyword")
    /\ AmountFrame

\* the keyword-anchored total
AmountKeyword ==
    /\ pc = "keyword"
    /\ ReturnOrGo(KeywordAmount(lines), "keyword", "ccy")
    /\ UNCHANGED khind
    /\ AmountFrame

\* the maximum currency-tagged number
AmountCcy ==
    /\ pc = "ccy"
    /\ ReturnOrGo(CcyAmount(lines), "ccy", "bare")
    /\ UNCHANGED khind
    /\ AmountFrame

\* the maximum bare number, or None at last
AmountBare ==
    /\ pc = "bare"
    /\ amount' = BareAmount(lines)
    /\ stage' = IF amount' # None THEN "bare" ELSE "none"
    /\ pc' = "done"
    /\ UNCHANGED khind
    /\ AmountFrame

NextAmount == AmountNoLines \/ AmountKhind \/ AmountKeyword \/ AmountCcy \/ AmountBare

SpecAmount == InitAmount /\ [][NextAmount]_vars

\* ------------------------------------------------------------------------
\* extract_products, stage by stage
\* ------------------------------------------------------------------------

\* receipt lines for the product resolver
P_KhindFan       == <<"K","H","I","N","D"," ","F","A","N">>
P_Khind          == <<"K","H","I","N","D">>
P_Code           == <<"B","L","-","2","0","0"," ","x","2">>
P_Fan3           == <<"f","a","n"," ","3","p","c","s">>
P_Qty2           == <<"Q","t","y",":"," ","2">>

ProductLines == {P_KhindFan, P_Khind, P_Code, P_Fan3, P_Qty2}

\* the largest max_items tried
MaxMaxItems == 3

\* curated product hints
FAN_   == <<"F","a","n">>
ProductHintLists == {NoList, <<FAN_>>}
GlobalProductHintLists == {NoList, <<KHIND_>>}

InitProducts ==
    /\ lines \in SeqsUpTo(ProductLines, MaxLines)
    /\ max_items \in 0..MaxMaxItems
    /\ preferred_items \in ProductHintLists
    /\ PREFERRED_PRODUCT_HINTS \in GlobalProductHintLists
    /\ PREFERRED_STORE_HINTS = NoList /\ STORE_LOC_MAP = NoMap
    /\ pc = "products"
    /\ items = <<>>
    /\ IdleAmount /\ IdleStore /\ IdleNorm /\ IdleProcess

\* what no step of extract_products changes
ProductFrame ==
    UNCHANGED <<globalVars, lines, max_items, amountVars, storeVars, normVars, processVars>>

\* the curated stage: preferred_items defaults to PREFERRED_PRODUCT_HINTS;
\* if preferred_items: items.extend(...); if len(items) >= max_items: return items
ProductsPreferred ==
    /\ pc = "products"
    /\ preferred_items' = EffectiveHints(preferred_items, PREFERRED_PRODUCT_HINTS)
    /\ items' = PreferredItems(lines, max_items, preferred_items')
    /\ pc' = IF preferred_items' # NoList /\ preferred_items' # <<>> /\ Len(items') >= max_items
             THEN "done" ELSE "khind rows"
    /\ ProductFrame

\* a loop that returned ends the function, one that ran out goes on
LoopDone(loop, next) == items' = loop.items /\ pc' = IF loop.returned THEN "done" ELSE next

\* the tracked-item lines
ProductsKhindRows ==
    /\ pc = "khind rows"
    /\ LoopDone(KhindRowItems(lines, _find_khind_rows(lines), max_items, items), "codes")
    /\ UNCHANGED preferred_items
    /\ ProductFrame

\* the product codes; return items
ProductsCodes ==
    /\ pc = "codes"
    /\ items' = CodeItems(lines, max_items, items)
    /\ pc' = "done"
    /\ UNCHANGED preferred_items
    /\ ProductFrame

NextProducts == ProductsPreferred \/ ProductsKhindRows \/ ProductsCodes

SpecProducts == InitProducts /\ [][NextProducts]_vars

\* ------------------------------------------------------------------------
\* _match_known_store, stage by stage
\* ------------------------------------------------------------------------

\* receipt lines for the store resolver
S_Aeon       == <<"A","E","O","N"," ","B","I","G">>
S_AeonLong   == <<"A","E","O","N"," ","B","I","G"," ","(","M",")"," ","S","D","N"," ","B","H","D">>
S_KedaiAli   == <<"K","e","d","a","i"," ","A","l","i">>
S_Kedai      == <<"K","E","D","A","I">>
S_KedaiMaju  == <<"K","E","D","A","I"," ","M","A","J","U">>
S_Blank      == <<" "," ">>

StoreLines == {S_Aeon, S_AeonLong, S_KedaiAli, S_Kedai, S_KedaiMaju, S_Blank}

\* the most blank lines before a store line
MaxStorePad == 12
Blanks(k) == [i \in 1..k |-> S_Blank]
PaddedStoreReceipts == {Blanks(k) \o <<S_Aeon>> : k \in 0..MaxStorePad}

\* curated store hints
KEDAI_ == <<"k","e","d","a","i">>
ALI_   == <<"A","l","i">>
StoreHintLists == {NoList, <<KEDAI_>>}
GlobalStoreHintLists == {NoList, <<ALI_>>}

InitStore ==
    /\ lines \in SeqsUpTo(StoreLines, MaxLines) \cup PaddedStoreReceipts
    /\ preferred_stores \in StoreHintLists
    /\ PREFERRED_STORE_HINTS \in GlobalStoreHintLists
    /\ PREFERRED_PRODUCT_HINTS = NoList /\ STORE_LOC_MAP = NoMap
    /\ pc = "store"
    /\ store_match = NoStore /\ location = None /\ loc_by = "running"
    /\ IdleAmount /\ IdleProduct /\ IdleNorm /\ IdleProcess

\* what no step of _match_known_store changes
StoreFrame ==
    UNCHANGED <<globalVars, lines, location, loc_by, amountVars, productVars, normVars, processVars>>

\* return m when a stage found a store, else go on with the stage next
FoundOrGo(m, next) ==
    IF m.found THEN store_match' = m /\ pc' = "done"
    ELSE pc' = next /\ UNCHANGED store_match

\* 1) the curated list, which defaults to PREFERRED_STORE_HINTS
StorePreferred ==
    /\ pc = "store"
    /\ preferred_stores' = EffectiveStores(preferred_stores, PREFERRED_STORE_HINTS)
    /\ FoundOrGo(PreferredStore(Top(lines), preferred_stores'), "generic")
    /\ StoreFrame

\* 2) the generic hints
StoreGeneric ==
    /\ pc = "generic"
    /\ FoundOrGo(FirstGeneric(Top(lines)), "allcaps")
    /\ UNCHANGED preferred_stores
    /\ StoreFrame

\* 3) the all-capitals fallback
StoreAllCaps ==
    /\ pc = "allcaps"
    /\ FoundOrGo(FirstAllCaps(Top(lines)), "first")
    /\ UNCHANGED preferred_stores
    /\ StoreFrame

\* 4) the first non-empty line, or None
StoreFirst ==
    /\ pc = "first"
    /\ store_match' = FirstNonEmpty(Top(lines))
    /\ pc' = "done"
    /\ UNCHANGED preferred_stores
    /\ StoreFrame

NextStore == StorePreferred \/ StoreGeneric \/ StoreAllCaps \/ StoreFirst

SpecStore == InitStore /\ [][NextStore]_vars

\* ------------------------------------------------------------------------
\* extract_store_location, stage by stage
\* ------------------------------------------------------------------------

\* receipt lines for the location resolver: three store lines, two addresses
A_Kajang     == <<"4","3","0","0","0"," ","K","a","j","a","n","g",","," ","S","e","l","a","n","g","o","r">>
A_Ipoh       == <<"I","p","o","h",","," ","P","e","r","a","k">>

LocationLines == {S_Aeon, S_AeonLong, S_KedaiAli, A_Kajang, A_Ipoh}

\* the most lines before the address lines
MaxLocPad == 20
NoAddress(k) == [i \in 1..k |-> S_KedaiAli]
PaddedLocReceipts == {NoAddress(k) \o <<A_Ipoh, A_Kajang>> : k \in 0..MaxLocPad}

\* a curated store->location map, keyed by normalized store name
LOC_ShahAlam == <<"S","h","a","h"," ","A","l","a","m",","," ","S","e","l","a","n","g","o","r">>
LOC_KualaLumpur == <<"K","u","a","l","a"," ","L","u","m","p","u","r">>
AEON_ == <<"A","E","O","N">>
LocMap == <<[k |-> S_Aeon, loc |-> LOC_ShahAlam]>>
\* a map whose first key is contained in its second
LocMapNested == <<[k |-> AEON_, loc |-> LOC_KualaLumpur], [k |-> S_Aeon, loc |-> LOC_ShahAlam]>>
LocMaps == {NoMap, <<>>, LocMap, LocMapNested}

InitLocation ==
    /\ lines \in SeqsUpTo(LocationLines, MaxLines) \cup PaddedLocReceipts
    /\ STORE_LOC_MAP \in LocMaps
    /\ PREFERRED_STORE_HINTS \in GlobalStoreHintLists
    /\ PREFERRED_PRODUCT_HINTS = NoList
    /\ pc = "location"
    /\ store_match = NoStore /\ preferred_stores = NoList /\ location = None /\ loc_by = "running"
    /\ IdleAmount /\ IdleProduct /\ IdleNorm /\ IdleProcess

\* what no step of extract_store_location changes
LocationFrame ==
    UNCHANGED <<globalVars, lines, preferred_stores, amountVars, productVars, normVars, processVars>>

\* return got when it is a value, else go on with the stage next
LocatedOrGo(got, by, next) ==
    IF got # None THEN location' = got /\ loc_by' = by /\ pc' = "done"
    ELSE pc' = next /\ UNCHANGED <<location, loc_by>>

\* store_match = _match_known_store(lines); if store_match and STORE_LOC_MAP: ...
LocMatchStore ==
    /\ pc = "location"
    /\ store_match' = _match_known_store(lines, NoList, PREFERRED_STORE_HINTS)
    /\ pc' = IF MapUsable(store_match', STORE_LOC_MAP) THEN "exact" ELSE "top"
    /\ UNCHANGED <<location, loc_by>>
    /\ LocationFrame

\* if norm_key in STORE_LOC_MAP: return STORE_LOC_MAP[norm_key]
LocExactKey ==
    /\ pc = "exact"
    /\ LocatedOrGo(LocExact(store_match, STORE_LOC_MAP), "exact", "substring")
    /\ UNCHANGED store_match
    /\ LocationFrame

\* for k, loc in STORE_LOC_MAP.items(): if k and k in norm_key: return loc
LocSubstringKey ==
    /\ pc = "substring"
    /\ LocatedOrGo(LocSubstring(store_match, STORE_LOC_MAP), "substring", "top")
    /\ UNCHANGED store_match
    /\ LocationFrame

\* for ln in lines[:20]: ...
LocTopLines ==
    /\ pc = "top"
    /\ LocatedOrGo(LocTop(lines), "top", "reversed")
    /\ UNCHANGED store_match
    /\ LocationFrame

\* for ln in reversed(lines): ...; return None
LocReversedLines ==
    /\ pc = "reversed"
    /\ location' = LocReversed(lines)
    /\ loc_by' = IF location' # None THEN "reversed" ELSE "none"
    /\ pc' = "done"
    /\ UNCHANGED store_match
    /\ LocationFrame

NextLocation == LocMatchStore \/ LocExactKey \/ LocSubstringKey \/ LocTopLines \/ LocReversedLines

SpecLocation == InitLocation /\ [][NextLocation]_vars

\* ------------------------------------------------------------------------
\* _normalize_amount, step by step
\* ------------------------------------------------------------------------

\* the characters of the normalizer's inputs: two digits (no 5, so that no
\* third decimal is a tie), the two separators, a letter
NormChars == {"1", "7", ".", ",", "a"}
\* the longest input made of arbitrary characters
MaxValLen == 4

NormExamples == {<<"1",",","2","3","4",".","5","6">>, <<"1","2",",","5","0">>, <<"a","b","c">>}
NormInputs == SeqsUpTo(NormChars, MaxValLen) \cup NormExamples \cup {None}

InitNormalize ==
    /\ val \in NormInputs
    /\ pc = "normalize"
    /\ raw = <<>> /\ num = <<>> /\ normalized = None
    /\ lines = <<>>
    /\ IdleGlobals /\ IdleAmount /\ IdleProduct /\ IdleStore /\ IdleProcess

\* what no step of _normalize_amount changes
NormFrame ==
    UNCHANGED <<globalVars, lines, val, amountVars, productVars, storeVars, processVars>>

\* raw = re.sub(r"[^\d.,]", "", val or ""); if not raw: return None
NormKeep ==
    /\ pc = "normalize"
    /\ raw' = RawOf(val)
    /\ pc' = IF raw' = <<>> THEN "done" ELSE "choose"
    /\ UNCHANGED <<num, normalized>>
    /\ NormFrame

\* the three branches that set num
NormChoose ==
    /\ pc = "choose"
    /\ num' = NumOf(raw)
    /\ pc' = "format"
    /\ UNCHANGED <<raw, normalized>>
    /\ NormFrame

\* try: return f"RM{float(num):.2f}" except Exception: return None
NormFormat ==
    /\ pc = "format"
    /\ normalized' = FormatNum(num)
    /\ pc' = "done"
    /\ UNCHANGED <<raw, num>>
    /\ NormFrame

NextNormalize == NormKeep \/ NormChoose \/ NormFormat

SpecNormalize == InitNormalize /\ [][NextNormalize]_vars

\* ------------------------------------------------------------------------
\* process, step by step
\* ------------------------------------------------------------------------

\* the most rows of the CSV, and the most images of the archive
MaxRows == 2

\* what run_ocr returns when it returns: no line, a total, a marker line
\* without a price, a line with neither a number nor a marker
O_Total150 == <<L_Total150>>
O_Khind    == <<P_Khind>>
O_KedaiAli == <<S_KedaiAli>>
OcrOutputs == {<<>>, O_Total150, O_Khind, O_KedaiAli}

\* the values of a row's city and state cells
KAJANG_   == <<"K","a","j","a","n","g">>
SELANGOR_ == <<"S","e","l","a","n","g","o","r">>
CityCells  == {KAJANG_}
StateCells == {<<>>, SELANGOR_}

InitProcess ==
    /\ n_rows \in 0..MaxRows
    /\ n_images \in 0..MaxRows
    /\ pc = "load"
    /\ lines = <<>>
    /\ row_idx = 0 /\ fb = NoFallback
    /\ image_missing = FALSE /\ ocr_error = FALSE /\ store = None
    /\ verdict = Verdict("", "") /\ extracted_rows = <<>> /\ flags = <<>> /\ response = ""
    /\ IdleGlobals /\ IdleAmount /\ IdleProduct /\ IdleStore /\ IdleNorm

\* what no step of process changes
ProcessFrame ==
    UNCHANGED <<globalVars, n_rows, n_images, stage, khind, max_items, preferred_items,
                store_match, preferred_stores, loc_by, normVars>>

\* the fields of the row that a step outside the parsing leaves alone
RowFields == <<amount, items, store, location>>

\* if "Submission No" not in df_raw.columns: return HTMLResponse(..., status_code=400)
RejectCsv ==
    /\ pc = "load"
    /\ response' = "400"
    /\ pc' = "done"
    /\ UNCHANGED <<lines, row_idx, fb, image_missing, ocr_error, verdict, extracted_rows, flags>>
    /\ UNCHANGED RowFields
    /\ ProcessFrame

\* the fallback columns are detected once; extracted_rows = []
LoadCsv ==
    /\ pc = "load"
    /\ \E city_col \in BOOLEAN, state_col \in BOOLEAN :
          fb' = [NoFallback EXCEPT !.city_col = city_col, !.state_col = state_col]
    /\ extracted_rows' = <<>>
    /\ row_idx' = 0
    /\ pc' = "row"
    /\ UNCHANGED <<lines, image_missing, ocr_error, verdict, flags, response>>
    /\ UNCHANGED RowFields
    /\ ProcessFrame

\* for row_idx, row in df_raw.iterrows(): the row's cells, its image, its flags
StartRow ==
    /\ pc = "row"
    /\ row_idx < n_rows
    /\ \E city \in (IF fb.city_col THEN CityCells ELSE {None}),
          state \in (IF fb.state_col THEN StateCells ELSE {None}) :
          fb' = [fb EXCEPT !.city = city, !.state = state]
    /\ image_missing' = ~(row_idx < n_images)
    /\ ocr_error' = FALSE
    /\ lines' = <<>>
    /\ pc' = IF image_missing' THEN "parse" ELSE "ocr"
    /\ UNCHANGED <<row_idx, verdict, extracted_rows, flags, response>>
    /\ UNCHANGED RowFields
    /\ ProcessFrame

\* run_ocr raises: except Exception: ocr_error = True
OcrRaises ==
    /\ pc = "ocr"
    /\ ocr_error' = TRUE
    /\ pc' = "parse"
    /\ UNCHANGED <<lines, row_idx, fb, image_missing, verdict, extracted_rows, flags, response>>
    /\ UNCHANGED RowFields
    /\ ProcessFrame

\* lines = run_ocr(image_path, debug_dump_to=dbg_raw_path)
OcrReturns ==
    /\ pc = "ocr"
    /\ \E ls \in OcrOutputs : lines' = ls
    /\ pc' = "debug"
    /\ UNCHANGED <<row_idx, fb, image_missing, ocr_error, verdict, extracted_rows, flags, response>>
    /\ UNCHANGED RowFields
    /\ ProcessFrame

\* dbg_dir.mkdir(...); with open(...) as f: f.write("\n".join(lines))
DebugWritten ==
    /\ pc = "debug"
    /\ pc' = "parse"
    /\ UNCHANGED <<lines, row_idx, fb, image_missing, ocr_error, verdict, extracted_rows, flags, response>>
    /\ UNCHANGED RowFields
    /\ ProcessFrame

\* mkdir, open or write raises within the same try: except Exception: ocr_error = True
DebugRaises ==
    /\ pc = "debug"
    /\ ocr_error' = TRUE
    /\ pc' = "parse"
    /\ UNCHANGED <<lines, row_idx, fb, image_missing, verdict, extracted_rows, flags, response>>
    /\ UNCHANGED RowFields
    /\ ProcessFrame

\* f"{fb_city}, {fb_state}" if fb_city and fb_state else (fb_state or "")
Truthy(s) == s # None /\ s # <<>>
FallbackLocation(f) ==
    IF Truthy(f.city) /\ Truthy(f.state) THEN f.city \o <<",", " ">> \o f.state
    ELSE IF Truthy(f.state) THEN f.state
    ELSE <<>>

\* --- parse fields ---
ParseFields ==
    /\ pc = "parse"
    /\ amount' = IF lines # <<>> THEN extract_amount_spent(lines) ELSE None
    /\ store' = IF lines # <<>> THEN extract_store_name(lines, NoList, PREFERRED_STORE_HINTS)
                ELSE None
    /\ location' = IF lines # <<>>
                   THEN extract_store_location(lines, PREFERRED_STORE_HINTS, STORE_LOC_MAP)
                   ELSE FallbackLocation(fb)
    /\ items' = IF lines # <<>> THEN extract_products(lines, 3, NoList, PREFERRED_PRODUCT_HINTS)
                ELSE <<>>
    /\ pc' = "decide"
    /\ UNCHANGED <<lines, row_idx, fb, image_missing, ocr_error, verdict, extracted_rows, flags, response>>
    /\ ProcessFrame

\* --- validity / reason (set ONCE) ---
RowVerdict(missing, failed, amount_spent, products) ==
    IF missing THEN Verdict(INVALID_, ImageMissing)
    ELSE IF failed THEN Verdict(INVALID_, OcrFailed)
    ELSE decide_validity(amount_spent, products, FALSE)

Decide ==
    /\ pc = "decide"
    /\ verdict' = RowVerdict(image_missing, ocr_error, amount, items)
    /\ pc' = "emit"
    /\ UNCHANGED <<lines, row_idx, fb, image_missing, ocr_error, extracted_rows, flags, response>>
    /\ UNCHANGED RowFields
    /\ ProcessFrame

\* x or ""
OrEmpty(x) == IF x = None THEN <<>> ELSE x

\* products[n][0] if len(products) >= n + 1 else "", and the same of [n][1]
ProductCell(products, n) ==
    IF Len(products) >= n THEN products[n] ELSE Item(<<>>, <<>>)

\* --- assemble output row ---
Data(amount_spent, v, products, st, store_loc) ==
    [amount_spent |-> OrEmpty(amount_spent),
     validity     |-> v.validity,
     reason       |-> v.reason,
     products     |-> <<ProductCell(products, 1), ProductCell(products, 2), ProductCell(products, 3)>>,
     store        |-> OrEmpty(st),
     store_loc    |-> OrEmpty(store_loc)]

\* extracted_rows.append(data), and the loop goes to the next row
EmitRow ==
    /\ pc = "emit"
    /\ extracted_rows' = Append(extracted_rows, Data(amount, verdict, items, store, location))
    /\ flags' = Append(flags, [image_missing |-> image_missing, ocr_error |-> ocr_error])
    /\ row_idx' = row_idx + 1
    /\ pc' = "row"
    /\ UNCHANGED <<lines, fb, image_missing, ocr_error, verdict, response>>
    /\ UNCHANGED RowFields
    /\ ProcessFrame

\* after the loop: the outputs are written and the results page returned
WriteOutputs ==
    /\ pc = "row"
    /\ ~(row_idx < n_rows)
    /\ response' = "200"
    /\ pc' = "done"
    /\ UNCHANGED <<lines, row_idx, fb, image_missing, ocr_error, verdict, extracted_rows, flags>>
    /\ UNCHANGED RowFields
    /\ ProcessFrame

NextProcess ==
    \/ RejectCsv \/ LoadCsv \/ StartRow \/ OcrRaises \/ OcrReturns \/ DebugWritten
    \/ DebugRaises \/ ParseFields \/ Decide \/ EmitRow \/ WriteOutputs

SpecProcess == InitProcess /\ [][NextProcess]_vars

\* ------------------------------------------------------------------------
\* the amount resolver: properties
\* ------------------------------------------------------------------------

\* a is "RM", digits, ".", two digits
IsRMString(a) ==
    /\ Len(a) >= 6
    /\ Slice(a, 1, 2) = RM_
    /\ a[Len(a) - 2] = "."
    /\ AllDigits(Slice(a, 3, Len(a) - 3))
    /\ AllDigits(Slice(a, Len(a) - 1, Len(a)))

\* the cents that the string "RM<int>.<dd>" reads as
RMValue(a) == ToInt(Slice(a, 3, Len(a) - 3)) * 100 + ToInt(Slice(a, Len(a) - 1, Len(a)))

\* C2: whenever extract_amount_spent returns a value, from whichever of its
\* four stages, the string is "RM" followed by a number with exactly two
\* decimal digits, and that number v satisfies 2.00 <= v <= 100000.00.
C2_AmountInBoundAndFormatted ==
    amount # None =>
        /\ IsRMString(amount)
        /\ InBound(RMValue(amount))
        /\ stage \in {"khind", "keyword", "ccy", "bare"}

\* C2 witness: the last stage returned a value although a keyword-anchored
\* and a currency-tagged number outside the bound stood in the receipt
C2_Witness ==
    /\ pc = "done" /\ stage = "bare" /\ amount # None
    /\ \E v \in Range(AllValues(RE_ANY_CCY, lines)) : ~InBound(v)

\* the receipt of the stop-window example
StopExample == <<L_KhindBlender, L_Total150, L_RM45>>

\* the values of the price candidates of a line
CandidateValues(ln) == {c.val : c \in Range(_price_candidates(ln))}

\* C3: the target-item resolver only returns a price of a line j such that
\* a marker line idx has idx <= j <= idx + 4 and no line of idx..j matches
\* the stop pattern; on the stop-window example it returns none and
\* extract_amount_spent returns "RM150.00" from the keyword stage.
C3_StopWindow ==
    /\ khind.found =>
        /\ khind.idx \in 1..Len(lines)
        /\ Contains(Upper(lines[khind.idx]), KHIND_)
        /\ khind.idx <= khind.j /\ khind.j <= khind.idx + 4 /\ khind.j <= Len(lines)
        /\ \A k \in khind.idx..khind.j : ~Matches(_STOP_AFTER_RE, lines[k])
        /\ khind.val \in CandidateValues(lines[khind.j])
        /\ amount = FormatRM(khind.val)
    /\ (lines = StopExample /\ pc = "done") =>
        /\ ~khind.found
        /\ stage = "keyword"
        /\ amount = <<"R","M","1","5","0",".","0","0">>

\* C3 witness: a price was taken from a window that a later stop line,
\* itself holding a price and within the lookahead, cut short
C3_Witness ==
    /\ khind.found
    /\ \E k \in (khind.j + 1)..Min(Len(lines), khind.idx + 4) :
          /\ Matches(_STOP_AFTER_RE, lines[k])
          /\ _price_candidates(lines[k]) # <<>>

\* every number of the receipt, currency-tagged or bare
ReceiptNumbers(ls) == Range(AllValues(RE_ANY_CCY, ls)) \cup Range(AllValues(RE_ANY_NUM, ls))

\* C6: for a non-empty receipt, if some numeric token anywhere (currency-
\* tagged or bare) has a value within [2.00, 100000.00], extract_amount_spent
\* returns a value; values outside the bound do not prevent it.
C6_InBoundValueIsReturned ==
    (pc = "done" /\ lines # <<>> /\ \E v \in ReceiptNumbers(lines) : InBound(v))
        => amount # None

\* ------------------------------------------------------------------------
\* the product resolver: properties
\* ------------------------------------------------------------------------

\* C4: for every receipt, every curated list (present or absent) and every
\* non-negative max_items, the list extract_products returns has at most
\* max_items entries.
C4_AtMostMaxItems ==
    pc = "done" => Len(items) <= max_items

\* C5: the list extract_products returns holds no two entries with the same
\* (case-folded name, quantity), over the three stages together.
C5_NoDuplicatePair ==
    pc = "done" =>
        \A a \in 1..Len(items), b \in 1..Len(items) :
            ItemKey(items[a]) = ItemKey(items[b]) => a = b

\* ------------------------------------------------------------------------
\* the store resolver: properties
\* ------------------------------------------------------------------------

\* whether a line is one the stage `by` of the store resolver looks for
StageMatches(by, ln, hints) ==
    CASE by = "preferred" -> \E h \in Range(hints) : Contains(Upper(ln), Upper(h))
      [] by = "generic"   -> \E h \in Range(STORE_HINTS) : Contains(Upper(ln), h)
      [] by = "allcaps"   -> Strip(ln) # <<>> /\ Upper(Strip(ln)) = Strip(ln)
      [] OTHER            -> Strip(ln) # <<>>

\* the scanned top lines that the stage which returned looks for
MatchingTopLines ==
    {k \in 1..Min(Len(lines), TOP_LINES) :
        StageMatches(store_match.by, lines[k], preferred_stores)}

HintStages == {"preferred", "generic", "allcaps"}

\* C7 as stated: when several scanned top lines match in the stage that
\* returns (curated hints, generic hints, all upper-case), the line returned
\* is the longest of them by trimmed character count.
C7_LongestMatchingLine ==
    (pc = "done" /\ store_match.found /\ store_match.by \in HintStages) =>
        \A k \in MatchingTopLines : Len(Strip(lines[k])) <= Len(store_match.store)

\* C7 as amended: in the stage that returns, the line returned is the first
\* of the scanned top lines that matches, in receipt order, trimmed.
C7_FirstMatchingLine ==
    (pc = "done" /\ store_match.found /\ store_match.by \in HintStages) =>
        /\ MatchingTopLines # {}
        /\ \E k \in MatchingTopLines :
              /\ \A j \in MatchingTopLines : k <= j
              /\ store_match.store = Strip(lines[k])
              /\ store_match.key = _norm(lines[k])

\* C7 witness: the curated stage returned a line while a later scanned line,
\* longer than it, holds a curated hint as well
C7_Witness ==
    /\ pc = "done" /\ store_match.found /\ store_match.by = "preferred"
    /\ \E k \in MatchingTopLines : Len(Strip(lines[k])) > Len(store_match.store)

\* ------------------------------------------------------------------------
\* the location resolver: properties
\* ------------------------------------------------------------------------

\* the keys of a curated map
MapKeys(map) == IF map = NoMap THEN {} ELSE {map[k].k : k \in 1..Len(map)}

\* the location of the first item of the map whose key is key
FirstWithKey(map, key) ==
    map[CHOOSE k \in 1..Len(map) :
            /\ map[k].k = key
            /\ \A j \in 1..(k - 1) : map[j].k # key].loc

\* the regions the receipt text itself holds
TextRegions(ls) == {_extract_city_state_from_line(ls[k]) : k \in 1..Len(ls)} \ {None}

\* C8: when a store is resolved and its normalized key is a key of the
\* curated map, extract_store_location returns the mapped location, whatever
\* regions the receipt text holds; the text heuristics are consulted only
\* when the exact-key and the contained-key lookups both miss.
C8_CuratedMapFirst ==
    pc = "done" =>
        /\ (store_match.found /\ store_match.key \in MapKeys(STORE_LOC_MAP)) =>
              location = FirstWithKey(STORE_LOC_MAP, store_match.key)
        /\ loc_by \in {"top", "reversed", "none"} =>
              \/ ~store_match.found
              \/ \A key \in MapKeys(STORE_LOC_MAP) :
                    /\ key # store_match.key
                    /\ (key = <<>> \/ ~Contains(store_match.key, key))

\* C8 witness: the mapped location was returned for a receipt whose text
\* holds another region, under a map with a contained key before the exact one
C8_Witness ==
    /\ pc = "done" /\ loc_by = "exact"
    /\ STORE_LOC_MAP = LocMapNested
    /\ TextRegions(lines) # {}
    /\ location \notin TextRegions(lines)

\* ------------------------------------------------------------------------
\* the normalizer: properties
\* ------------------------------------------------------------------------

\* the reference result: '.' the decimal point when the text after the last
\* '.' is all digits, else ',' when the text after the last ',' is, else
\* all separators stripped
RefNum(r) ==
    IF LastGroupIsDigits(r, ".") THEN Without(r, ",")
    ELSE IF LastGroupIsDigits(r, ",") THEN ReplaceChar(Without(r, "."), ",", ".")
    ELSE Without(Without(r, ","), ".")
RefNormalize(v) ==
    IF RawOf(v) = <<>> \/ ~IsFloat(RefNum(RawOf(v))) THEN None
    ELSE FormatRM(FloatCents(RefNum(RawOf(v))))

\* C9: for every input, _normalize_amount returns the reference result.
C9_NormalizerIsReference ==
    pc = "done" => normalized = RefNormalize(val)

\* ------------------------------------------------------------------------
\* process: properties
\* ------------------------------------------------------------------------

\* the (verdict, reason) the precedence gives
Precedence(missing, failed, amount_spent) ==
    IF missing THEN Verdict(INVALID_, ImageMissing)
    ELSE IF failed THEN Verdict(INVALID_, OcrFailed)
    ELSE IF amount_spent # <<>> THEN Verdict(VALID_, "")
    ELSE Verdict(INVALID_, NoTotalFound)

EmittedVerdict(k) ==
    Verdict(extracted_rows[k].validity, extracted_rows[k].reason)

\* C1: every emitted row carries the (verdict, reason) of the precedence
\* image missing, OCR failed, non-empty amount, no total found - whether or
\* not products were found; the verdict is VALID exactly when the reason is
\* empty.  The decider itself puts a missing image before the amount and
\* the products the row resolved, and the row's verdict is the precedence
\* for either value of the OCR flag.
C1_ValidityPrecedence ==
    /\ \A k \in 1..Len(extracted_rows) :
          /\ EmittedVerdict(k) =
                Precedence(flags[k].image_missing, flags[k].ocr_error, extracted_rows[k].amount_spent)
          /\ (extracted_rows[k].validity = VALID_) <=> (extracted_rows[k].reason = "")
    /\ decide_validity(amount, items, TRUE) = Verdict(INVALID_, ImageMissing)
    /\ \A missing \in BOOLEAN, failed \in BOOLEAN :
          RowVerdict(missing, failed, amount, items) = Precedence(missing, failed, OrEmpty(amount))

\* C1 witness: a row was emitted INVALID, "No total found" with a product
\* and no amount, its image present and its OCR without error
C1_Witness ==
    \E k \in 1..Len(extracted_rows) :
        /\ ~flags[k].image_missing /\ ~flags[k].ocr_error
        /\ extracted_rows[k].amount_spent = <<>>
        /\ extracted_rows[k].products[1].name # <<>>
        /\ EmittedVerdict(k) = Verdict(INVALID_, NoTotalFound)

\* C10: every emitted row whose OCR-failure flag is set has an empty amount,
\* an empty store and no product, and the verdict INVALID, "OCR failed".
C10_OcrFailedRowIsEmpty ==
    \A k \in 1..Len(extracted_rows) :
        flags[k].ocr_error =>
            /\ extracted_rows[k].amount_spent = <<>>
            /\ extracted_rows[k].store = <<>>
            /\ \A n \in 1..3 : extracted_rows[k].products[n] = Item(<<>>, <<>>)
            /\ EmittedVerdict(k) = Verdict(INVALID_, OcrFailed)

\* ------------------------------------------------------------------------
\* the target-item scan: properties
\* ------------------------------------------------------------------------

\* the lines that match the stop pattern
StopLines(ls) == {k \in 1..Len(ls) : Matches(_STOP_AFTER_RE, ls[k])}

\* the lines of a marker's window: idx .. idx + 4 within the receipt, up to
\* but not including the first of the stop lines
WindowOf(ls, idx, stops) ==
    {j \in idx..Min(Len(ls), idx + 4) : \A k \in idx..j : k \notin stops}
WindowLines(ls, idx) == WindowOf(ls, idx, StopLines(ls))

\* the candidates of a line that are within the bound and whose context
\* holds no quantity/unit vocabulary
QualifyingOf(ln, cands) ==
    {c \in cands : InBound(c.val) /\ ~_looks_like_qty_context(ln, c.pos, c.pos + 1)}
Qualifying(ln) == QualifyingOf(ln, Range(_price_candidates(ln)))

\* the lines that have a qualifying candidate
QualifyingLines(ls) == {k \in 1..Len(ls) : Qualifying(ls[k]) # {}}

\* the marker lines, and those whose window holds a line with a qualifying candidate
MarkerLines(ls) == {i \in 1..Len(ls) : Contains(Upper(ls[i]), KHIND_)}
PricedMarkers(ls, stops, quals) ==
    {i \in MarkerLines(ls) : WindowOf(ls, i, stops) \cap quals # {}}

\* hit is the first priced marker and the lowest qualifying line of its window
FirstPricedLowest(ls, hit, stops, quals, priced) ==
    /\ hit.found <=> priced # {}
    /\ hit.found =>
          /\ hit.idx \in priced
          /\ \A i \in priced : hit.idx <= i
          /\ hit.j \in WindowOf(ls, hit.idx, stops) \cap quals
          /\ \A j \in WindowOf(ls, hit.idx, stops) \cap quals : j <= hit.j
          /\ hit.val \in {c.val : c \in Qualifying(ls[hit.j])}
ScanOrder(ls, hit, stops, quals) ==
    FirstPricedLowest(ls, hit, stops, quals, PricedMarkers(ls, stops, quals))

\* C11: the target-item resolver returns a value exactly when some marker's
\* window holds a line with a qualifying candidate; the value then comes from
\* the first such marker in receipt order and, in its window, from the line
\* of greatest index that has a qualifying candidate.  On ["KHIND Fan
\* Deluxe", "Qty: 2", "RM89.90"] it returns "RM89.90".
C11_FirstMarkerBottomUp ==
    (pc = "keyword" \/ (pc = "done" /\ lines # <<>>)) =>
        /\ ScanOrder(lines, khind, StopLines(lines), QualifyingLines(lines))
        /\ khind.found => amount = FormatRM(khind.val) /\ stage = "khind"
        /\ lines = ScanExample =>
              amount = <<"R","M","8","9",".","9","0">> /\ khind.j = 3

\* C11 witness: the value came from a second marker, the first one's window
\* holding no qualifying candidate, and from the lower of two lines of the
\* window that have one
C11_Witness ==
    /\ pc = "done" /\ khind.found
    /\ \E i \in MarkerLines(lines) : i < khind.idx
    /\ \E j \in WindowLines(lines, khind.idx) : j < khind.j /\ Qualifying(lines[j]) # {}

\* ------------------------------------------------------------------------
\* the choice within a line: properties
\* ------------------------------------------------------------------------

\* the highest confidence score among candidates
TopScoreOf(cands) == CHOOSE b \in {c.s : c \in cands} : \A c \in cands : c.s <= b
TopScore(ln) == TopScoreOf(Range(_price_candidates(ln)))

\* the qualifying candidates that have a score, and those of a line that
\* have the highest score present on it
WithTopScore(quals, score) == {c \in quals : c.s = score}
TopQualifying(ln) == WithTopScore(Qualifying(ln), TopScore(ln))

\* c is the rightmost candidate of the set cs
Rightmost(c, cs) == c \in cs /\ \A d \in cs : d.pos <= c.pos

\* C12 as stated: the value the selector returns on a line belongs to a
\* candidate of the highest score present on the line, the rightmost of
\* that score that qualifies; a bare decimal is never returned from a line
\* that has a currency-tagged candidate.
C12_AlwaysHighestScore ==
    khind.found =>
        \E c \in TopQualifying(lines[khind.j]) :
            /\ c.val = khind.val
            /\ Rightmost(c, TopQualifying(lines[khind.j]))

\* v is the value of the rightmost of top when top is not empty, else of quals
RightmostOfTopElseAny(v, quals, top) ==
    \E c \in quals :
        /\ c.val = v
        /\ IF top # {} THEN Rightmost(c, top) ELSE Rightmost(c, quals)
ChosenOf(v, quals, score) == RightmostOfTopElseAny(v, quals, WithTopScore(quals, score))
ChosenAmong(ln, v, cands) == ChosenOf(v, QualifyingOf(ln, cands), TopScoreOf(cands))

\* C12 as amended: the value belongs to the rightmost qualifying candidate
\* of the highest score present when a candidate of that score qualifies,
\* and to the rightmost qualifying candidate of any score when none does.
C12_HighestScoreElseAny ==
    (pc = "done" /\ khind.found) =>
        ChosenAmong(lines[khind.j], khind.val, Range(_price_candidates(lines[khind.j])))

\* C12 witness: a value was chosen on a line with two qualifying candidates
\* of the highest score and a qualifying candidate of a lower score
C12_Witness ==
    /\ pc = "done" /\ khind.found
    /\ \E c \in TopQualifying(lines[khind.j]), d \in TopQualifying(lines[khind.j]) : c.pos < d.pos
    /\ Qualifying(lines[khind.j]) # TopQualifying(lines[khind.j])

====
